---- MODULE Spec2Model ----
(***************************************************************************)
(* Mongo TV server (src/server.js): the watch session (startWatching,      *)
(* connectMongoDB), the broadcast hub (broadcast, the clients registry)    *)
(* and the WebSocket handlers, as a state machine.                         *)
(*                                                                         *)
(* Node runs one handler at a time: an action is one run of a handler from *)
(* the event that starts it (or the await that resumes it) to its next     *)
(* await or its end.                                                       *)
(*                                                                         *)
(* Next is the whole system.  The properties are checked under             *)
(* specifications that take the part of Next they are about: HubSpec (the  *)
(* registry and broadcast), FeedSpec (retargeting while the store makes    *)
(* changes), SessionSpec (startup, retargeting and upstream failures),     *)
(* LiveSpec (the startup loop under fair scheduling), LockedSpec (a target *)
(* fixed by the environment), ViewerSpec (viewers and their messages),     *)
(* TargetSpec (requests of every shape), ShutdownSpec (SIGINT during the   *)
(* session), FaultSpec (every failure, with one viewer), ErrorSpec (stream *)
(* errors in a row) and NormalizeSpec (change notifications of every kind  *)
(* through formatChangeEvent, cleanForYaml and toYaml).                    *)
(*                                                                         *)
(* The browser client (class MongoTV of the page's script) is one more     *)
(* variable, tv, which the server never touches: PauseSpec (messages       *)
(* arriving while the user pauses and resumes) and TvSpec (the same with   *)
(* clearScreen).                                                           *)
(***************************************************************************)
EXTENDS Integers, Sequences, FiniteSets, TLC

\* ------------------------------------------------------------------ bounds
\* Messages ('selectCollection' requests, unparseable ones) that viewers may
\* ever send.
MaxRequests == 2
\* Changes the store may ever make.
MaxChanges == 2
\* Upstream failures (connect, open, close, stream error) that may ever occur.
MaxFailures == 1
\* Upstream failures that may occur where stream errors come in a row.
MaxStreamErrors == 3
\* 'change' messages a browser client may ever receive.
MaxReceived == 52

\* this.MAX_HISTORY of the browser client.
MAX_HISTORY == 50

\* The viewer connections, numbered in the order they connect; a connection
\* that has closed does not come back.
Conns == {1, 2}
\* The startup path opens one stream and every request at most one.
StreamIds == 1..(MaxRequests + 1)

\* Values of the environment and of the fields of a viewer request.  "" stands
\* for every falsy value (unset, undefined, empty).
Databases == {"", "db1"}
Collections == {"c1"}
\* Namespaces in which the store makes changes.
Namespaces == {<<"db1", "c1">>, <<"db1", "c2">>}

NoStream == 0

VARIABLES
  env,                      \* MONGODB_DATABASE, MONGODB_COLLECTION
  clients,                  \* the registry: set of registered connections
  readyState,               \* ws.readyState of every connection
  inbox,                    \* what each connection's peer has been sent
  mongoClient,              \* the store client of the latest connect attempt
  liveClients,              \* store clients that are connected and not closed
  currentChangeStream,      \* the active change stream, NoStream for null
  currentWatchDescription,  \* '' until the first target is resolved
  streams,                  \* every change stream opened so far, by id
  oplog,                    \* the namespaces of the store's changes, in order
  raws,                    \* the notification of each of these changes
  tv,                       \* the state of one browser client (MongoTV)
  startup,                  \* where connectMongoDB stands
  pending,                  \* viewer handlers suspended in startWatching
  sigint,                   \* whether the SIGINT handler is registered
  shutdown,                 \* where the SIGINT handler stands
  casts,                    \* broadcast calls made while each connection was registered
  requests,                 \* viewer messages received so far
  failures                  \* upstream failures so far

vars == <<env, clients, readyState, inbox, mongoClient, liveClients,
          currentChangeStream, currentWatchDescription, streams, oplog, raws, tv,
          startup, pending, sigint, shutdown, casts, requests, failures>>

\* ----------------------------------------------------------- configuration
MONGODB_DATABASE == env.database
MONGODB_COLLECTION == env.collection

\* The message handler without its lock test.
LockTestOmitted == FALSE

\* A lock test on the database alone.
LockedByDatabase == MONGODB_DATABASE # ""

\* The lock test of the message handler: MONGODB_DATABASE && MONGODB_COLLECTION.
LockedTarget == MONGODB_DATABASE # "" /\ MONGODB_COLLECTION # ""

\* hasFixedCollection of GET /api/config.
hasFixedCollection == MONGODB_DATABASE # "" /\ MONGODB_COLLECTION # ""

\* ------------------------------------------------------ JavaScript values
\* A value as the normalizer sees it.  type is "undefined", "null", "number",
\* "string", "Date", "Buffer", "ObjectId", "Binary" (the last two are the
\* objects whose _bsontype is that name), "array" or "object" (a plain
\* object).  text is what a scalar prints as, for an ObjectId what toString()
\* returns and for a Binary the bytes of its buffer.  fields are the
\* <<key, value>> pairs of an object, or <<index, value>> of an array, in the
\* order `for ... in`, JSON.stringify and yaml.dump enumerate them.
Value(type, text, fields) == [type |-> type, text |-> text, fields |-> fields]

undefined == Value("undefined", "", <<>>)
null == Value("null", "", <<>>)
Num(text) == Value("number", text, <<>>)
Str(text) == Value("string", text, <<>>)
ObjectId(hex) == Value("ObjectId", hex, <<>>)
Binary(bytes) == Value("Binary", bytes, <<>>)
Buffer(bytes) == Value("Buffer", bytes, <<>>)
Array(elements) == Value("array", "", elements)
Object(fields) == Value("object", "", fields)

\* Whether `if (v)` takes the branch.
Truthy(v) ==
  /\ v.type \notin {"undefined", "null"}
  /\ ~(v.type = "number" /\ v.text = "0")
  /\ ~(v.type = "string" /\ v.text = "")

\* The keys of an object, in order.
Keys(v) == [i \in 1..Len(v.fields) |-> v.fields[i][1]]

\* ------------------------------------------------------------- normalizer
\* operationMap of formatChangeEvent.
operationMap ==
  [insert |-> "INSERT", update |-> "UPDATE", replace |-> "REPLACE",
   delete |-> "DELETE", drop |-> "DROP", invalidate |-> "INVALIDATE"]

\* String.prototype.toUpperCase on the operation tags of the store.
toUpperCase(tag) ==
  CASE tag = "insert" -> "INSERT"
    [] tag = "update" -> "UPDATE"
    [] tag = "replace" -> "REPLACE"
    [] tag = "delete" -> "DELETE"
    [] tag = "drop" -> "DROP"
    [] tag = "invalidate" -> "INVALIDATE"
    [] tag = "rename" -> "RENAME"
    [] tag = "dropDatabase" -> "DROPDATABASE"

\* operationOf with an unknown tag passed through as it is.
operationOfAsIs(tag) ==
  IF tag \in DOMAIN operationMap THEN operationMap[tag] ELSE tag

\* operationMap[change.operationType] || change.operationType.toUpperCase()
operationOf(tag) ==
  IF tag \in DOMAIN operationMap THEN operationMap[tag] ELSE toUpperCase(tag)

\* `${change.ns?.db || 'unknown'}.${change.ns?.coll || 'unknown'}`
namespaceOf(change) ==
  (IF change.ns[1] # "" THEN change.ns[1] ELSE "unknown") \o "." \o
  (IF change.ns[2] # "" THEN change.ns[2] ELSE "unknown")

\* formatChangeEvent(change).  change.ns is <<db, coll>> with "" for a part
\* that is absent; timestamp, the wall clock at the call, is left out.
formatChangeEvent(change) ==
  [operation |-> operationOf(change.operationType),
   namespace |-> namespaceOf(change),
   documentKey |-> change.documentKey,
   document |-> IF Truthy(change.fullDocument) THEN change.fullDocument ELSE undefined,
   updates |->
     IF Truthy(change.updateDescription) THEN change.updateDescription ELSE undefined]

\* obj[key] of a plain object: the value of the last field of that name, or
\* undefined.
RECURSIVE Get(_, _, _)
Get(obj, key, k) ==
  IF k = 0 THEN undefined
  ELSE IF obj.fields[k][1] = key THEN obj.fields[k][2]
  ELSE Get(obj, key, k - 1)

\* obj._bsontype: the name of the class for a value of the BSON library, and
\* for a plain object whatever its own field of that name holds.
bsontype(obj) ==
  IF obj.type \in {"ObjectId", "Binary"} THEN obj.type
  ELSE IF obj.type = "object" /\ Get(obj, "_bsontype", Len(obj.fields)).type = "string"
    THEN Get(obj, "_bsontype", Len(obj.fields)).text
  ELSE ""

RECURSIVE cleanForYaml(_)

\* cleanForYaml copying the fields of an object last to first.
cleanForYamlReversed(obj) ==
  IF ~Truthy(obj) THEN obj
  ELSE IF bsontype(obj) = "Binary"
    THEN (IF obj.type = "Binary" THEN Buffer(obj.text)
          ELSE Get(obj, "buffer", Len(obj.fields)))
  ELSE IF bsontype(obj) = "ObjectId"
    THEN (IF obj.type = "ObjectId" THEN Str(obj.text) ELSE Str("[object Object]"))
  ELSE IF obj.type = "array"
    THEN Array([i \in 1..Len(obj.fields) |->
                  <<obj.fields[i][1], cleanForYaml(obj.fields[i][2])>>])
  ELSE IF obj.type = "object"
    THEN Object([i \in 1..Len(obj.fields) |->
                   <<obj.fields[Len(obj.fields) + 1 - i][1],
                     cleanForYaml(obj.fields[Len(obj.fields) + 1 - i][2])>>])
  ELSE obj

\* cleanForYaml(obj).  obj.buffer of a Binary is its bytes and obj.toString()
\* of an ObjectId its hex string; a plain object has the buffer field it was
\* given, if any, and the toString of Object.prototype.
cleanForYaml(obj) ==
  IF ~Truthy(obj) THEN obj
  ELSE IF bsontype(obj) = "Binary"
    THEN (IF obj.type = "Binary" THEN Buffer(obj.text)
          ELSE Get(obj, "buffer", Len(obj.fields)))
  ELSE IF bsontype(obj) = "ObjectId"
    THEN (IF obj.type = "ObjectId" THEN Str(obj.text) ELSE Str("[object Object]"))
  ELSE IF obj.type = "array"
    THEN Array([i \in 1..Len(obj.fields) |->
                  <<obj.fields[i][1], cleanForYaml(obj.fields[i][2])>>])
  ELSE IF obj.type = "object"
    THEN Object([i \in 1..Len(obj.fields) |->
                   <<obj.fields[i][1], cleanForYaml(obj.fields[i][2])>>])
  ELSE obj

\* yaml.dump(value, {indent: 2, sortKeys: false, ...}) as the lines of the
\* text, each line as its depth of indentation, its key (`-` for an element
\* of an array, "" for a bare scalar) and the scalar after the key.  A mapping
\* gives one line per field in the order of the fields, followed by the lines
\* of a nested value one level deeper; a field that is undefined gives no
\* line.
Line(indent, key, text) == [indent |-> indent, key |-> key, text |-> text]

RECURSIVE yamlDump(_, _)
RECURSIVE yamlFields(_, _, _, _)
yamlFields(fields, k, dash, indent) ==
  IF k > Len(fields) THEN <<>>
  ELSE
    LET key == IF dash THEN "-" ELSE fields[k][1]
        v == fields[k][2]
        lines ==
          IF v.type = "undefined" THEN <<>>
          ELSE IF v.type \in {"array", "object"} /\ v.fields # <<>>
            THEN <<Line(indent, key, "")>> \o yamlDump(v, indent + 1)
          ELSE IF v.type = "array" THEN <<Line(indent, key, "[]")>>
          ELSE IF v.type = "object" THEN <<Line(indent, key, "{}")>>
          ELSE <<Line(indent, key, v.text)>>
    IN lines \o yamlFields(fields, k + 1, dash, indent)

yamlDump(value, indent) ==
  IF value.type = "object" THEN
    (IF value.fields = <<>> THEN <<Line(indent, "", "{}")>>
     ELSE yamlFields(value.fields, 1, FALSE, indent))
  ELSE IF value.type = "array" THEN
    (IF value.fields = <<>> THEN <<Line(indent, "", "[]")>>
     ELSE yamlFields(value.fields, 1, TRUE, indent))
  ELSE <<Line(indent, "", value.text)>>

\* toYaml(obj).
toYaml(obj) == yamlDump(cleanForYaml(obj), 0)

\* The payload with the full document passed over.
payloadOfUpdatesFirst(formatted) ==
  IF Truthy(formatted.updates) THEN formatted.updates
  ELSE IF Truthy(formatted.document) THEN formatted.document
  ELSE Object(<< <<"documentKey", formatted.documentKey>> >>)

\* The 'change' listener: what to show.
payloadOf(formatted) ==
  IF Truthy(formatted.document) THEN formatted.document
  ELSE IF Truthy(formatted.updates) THEN formatted.updates
  ELSE Object(<< <<"documentKey", formatted.documentKey>> >>)

\* The 'change' listener: the object it passes to broadcast for a change.
changeData(change) ==
  LET formatted == formatChangeEvent(change)
      payload == payloadOf(formatted)
  IN [type |-> "change",
      operation |-> formatted.operation,
      namespace |-> formatted.namespace,
      yaml |-> toYaml(payload),
      json |-> cleanForYaml(payload),
      raw |-> formatted]

\* --------------------------------------------------------------- messages
\* What a peer is sent.  cast tells a message sent by broadcast from
\* one sent to a single connection with ws.send; stream and n name the
\* change stream and the store change a 'change' message comes from.
Message(type, body, stream, n) ==
  [type |-> type, body |-> body, stream |-> stream, n |-> n, cast |-> FALSE]

WelcomeMsg == Message("welcome", "Welcome to Mongo TV", NoStream, 0)
StatusMsg(watching) == Message("status", watching, NoStream, 0)
LockedMsg ==
  Message("error", "Collection is fixed by environment configuration", NoStream, 0)
ConnectionFailedMsg == Message("error", "Connection failed", NoStream, 0)
StreamErrorMsg(s) == Message("error", "Change stream error", s, 0)
ChangeMsg(s, n) == Message("change", namespaceOf(raws[n]), s, n)

\* Send with the new message put ahead of the earlier ones.
SendFirst(box, m) == <<m>> \o box

\* client.send(message): the peer receives the messages of one socket in the
\* order they were sent.
Send(box, m) == Append(box, m)

\* Recipients without the readyState test.
RecipientsAnyState == clients

\* Recipients when the loop ends at the first connection that is not open; the
\* registry is walked in the order the connections were added.
RecipientsUntilNotOpen ==
  {c \in clients : \A d \in clients : d <= c => readyState[d] = "OPEN"}

\* The connections broadcast sends to.
Recipients == {c \in clients : readyState[c] = "OPEN"}

\* broadcast(data): the inboxes after the call.
Broadcast(data) ==
  [c \in Conns |->
     IF c \in Recipients
       THEN Send(inbox[c], [data EXCEPT !.cast = TRUE])
       ELSE inbox[c]]

\* The count of broadcast calls after one more call.
Counted == [c \in Conns |-> IF c \in clients THEN casts[c] + 1 ELSE casts[c]]

\* ----------------------------------------------------------- watch target
\* WatchTarget without the test of database in its first branch.
WatchTargetByCollectionAlone(database, collection) ==
  IF collection # "" /\ collection # "*"
    THEN <<database, collection>>
    ELSE IF database # "" THEN <<database, "*">>
    ELSE <<"*", "*">>

\* startWatching: the target the arguments resolve to, as <<database, collection>>
\* with "*" for all.
WatchTarget(database, collection) ==
  IF database # "" /\ collection # "" /\ collection # "*"
    THEN <<database, collection>>
    ELSE IF database # "" THEN <<database, "*">>
    ELSE <<"*", "*">>

\* startWatching: the description of the target.
WatchDescription(database, collection) ==
  IF database # "" /\ collection # "" /\ collection # "*"
    THEN database \o "." \o collection
    ELSE IF database # "" THEN database \o ".*"
    ELSE "*.*"

\* Whether a change stream on target reports a change in namespace ns.
Watches(target, ns) ==
  /\ target[1] \in {"*", ns[1]}
  /\ target[2] \in {"*", ns[2]}

\* ---------------------------------------------------------- change streams
\* A stream is "open" from watch() until close() is called on it, "closing"
\* until the close has completed, then "closed".  pos is the number of store
\* changes it has passed.
NewStream(database, collection) ==
  [target |-> WatchTarget(database, collection), state |-> "open", pos |-> Len(oplog)]

\* currentChangeStream.close() is called on stream s.
CloseCalled(strs, s) ==
  [strs EXCEPT ![s] = IF @.state = "open" THEN [@ EXCEPT !.state = "closing"] ELSE @]

\* The close of stream s has completed.
CloseDone(strs, s) ==
  [strs EXCEPT ![s] = [@ EXCEPT !.state = "closed"]]

\* Streams that are closed and that currentChangeStream (ccs) no longer refers
\* to are garbage: what they watched is forgotten.
NoTarget == <<"", "">>
Collected(strs, ccs) ==
  [s \in DOMAIN strs |->
     IF strs[s].state = "closed" /\ s # ccs
       THEN [target |-> NoTarget, state |-> "closed", pos |-> 0]
       ELSE strs[s]]

OpenStreams == {s \in DOMAIN streams : streams[s].state # "closed"}

\* ---------------------------------------------------- startWatching calls
None == <<>>

\* startWatching invocations suspended in `await currentChangeStream.close()`.
InFlight ==
  {c \in Conns : pending[c] # None} \cup
  (IF startup.pc = "closing" THEN {0} ELSE {})

\* How the rest of startWatching can end: it opens the stream, or resolving
\* the target throws, or watch() throws.
Outcomes ==
  IF failures < MaxFailures THEN {"ok", "throwResolve", "throwWatch"} ELSE {"ok"}

\* WatchRest with the description assigned nowhere.
WatchRestKeepsDescription(strs, database, collection, outcome) ==
  /\ currentChangeStream' = IF outcome = "ok" THEN Len(strs) + 1 ELSE NoStream
  /\ streams' =
       Collected(IF outcome = "ok"
                   THEN Append(strs, NewStream(database, collection))
                   ELSE strs,
                 currentChangeStream')
  /\ currentWatchDescription' = currentWatchDescription
  /\ failures' = IF outcome = "ok" THEN failures ELSE failures + 1

\* startWatching from `Determine what to watch` to its end, with strs the
\* streams and currentChangeStream null after the close block.
WatchRest(strs, database, collection, outcome) ==
  /\ currentChangeStream' = IF outcome = "ok" THEN Len(strs) + 1 ELSE NoStream
  /\ streams' =
       Collected(IF outcome = "ok"
                   THEN Append(strs, NewStream(database, collection))
                   ELSE strs,
                 currentChangeStream')
  /\ currentWatchDescription' =
       IF outcome = "throwResolve"
         THEN currentWatchDescription
         ELSE WatchDescription(database, collection)
  /\ failures' = IF outcome = "ok" THEN failures ELSE failures + 1

\* The close awaited by a suspended startWatching rejects: the stream is left
\* open or closed, and currentChangeStream keeps referring to it.
CloseThrows(s, left) ==
  /\ failures < MaxFailures
  /\ failures' = failures + 1
  /\ streams' =
       Collected([streams EXCEPT ![s] = [@ EXCEPT !.state = left]], currentChangeStream)
  /\ UNCHANGED <<currentChangeStream, currentWatchDescription>>

\* ------------------------------------------------------ the browser client
\* MongoTV after its constructor, with nothing stored by an earlier session:
\* screen is the entries of the #screen element in order, and received counts
\* the 'change' messages handed to handleMessage, each of which is named by
\* its number of arrival.
TvInit ==
  [isPaused |-> FALSE, messageQueue |-> <<>>, history |-> <<>>, docCount |-> 0,
   screen |-> <<>>, received |-> 0]

\* What the browser client never touches: the state of the server.
serverVars ==
  <<env, clients, readyState, inbox, mongoClient, liveClients, currentChangeStream,
    currentWatchDescription, streams, oplog, raws, startup, pending, sigint,
    shutdown, casts, requests, failures>>

\* displayChange with the new entry put first in the history.
displayChangeNewestFirst(t, data) ==
  [t EXCEPT !.docCount = @ + 1,
            !.history = IF Len(@) + 1 > MAX_HISTORY
                          THEN Tail(<<data>> \o @)
                          ELSE <<data>> \o @,
            !.screen = Append(@, data)]

\* displayChange(data) on client state t: the count goes up, the entry is
\* pushed on the history, whose oldest entry is shifted out when it has grown
\* beyond MAX_HISTORY, and the entry is appended to the screen.
displayChange(t, data) ==
  [t EXCEPT !.docCount = @ + 1,
            !.history = IF Len(@) + 1 > MAX_HISTORY
                          THEN Tail(Append(@, data))
                          ELSE Append(@, data),
            !.screen = Append(@, data)]

\* The loop of togglePause: displayChange(messageQueue.shift()) while the
\* queue is not empty.
RECURSIVE processQueue(_, _)
processQueue(t, queue) ==
  IF queue = <<>> THEN t
  ELSE processQueue(displayChange(t, Head(queue)), Tail(queue))

\* handleMessage that displays at once whether paused or not.
handleMessageUnpaused ==
  /\ tv.received < MaxReceived
  /\ tv' = displayChange([tv EXCEPT !.received = @ + 1], tv.received + 1)
  /\ UNCHANGED serverVars

\* handleMessage(data) for a 'change' message: queued while paused, displayed
\* otherwise.
handleMessage ==
  /\ tv.received < MaxReceived
  /\ LET data == tv.received + 1
         t == [tv EXCEPT !.received = data]
     IN tv' = IF tv.isPaused
                THEN [t EXCEPT !.messageQueue = Append(@, data)]
                ELSE displayChange(t, data)
  /\ UNCHANGED serverVars

\* togglePause(): pause, or resume and display what was queued.
togglePause ==
  /\ tv' = IF ~tv.isPaused
             THEN [tv EXCEPT !.isPaused = TRUE]
             ELSE processQueue([tv EXCEPT !.isPaused = FALSE, !.messageQueue = <<>>],
                               tv.messageQueue)
  /\ UNCHANGED serverVars

\* clearScreen().
clearScreen ==
  /\ tv' = [tv EXCEPT !.screen = <<>>, !.docCount = 0, !.messageQueue = <<>>,
                      !.history = <<>>]
  /\ UNCHANGED serverVars

\* ------------------------------------------------------------------- Init
\* The state when server.listen has called connectMongoDB, which has created
\* the first MongoClient and is suspended in `await mongoClient.connect()`.
InitWith(failed) ==
  /\ env \in [database : Databases, collection : {"", "c1"}]
  /\ clients = {}
  /\ readyState = [c \in Conns |-> "NEW"]
  /\ inbox = [c \in Conns |-> <<>>]
  /\ mongoClient = 1
  /\ liveClients = {}
  /\ currentChangeStream = NoStream
  /\ currentWatchDescription = ""
  /\ streams = <<>>
  /\ oplog = <<>>
  /\ raws = <<>>
  /\ tv = TvInit
  /\ startup = [pc |-> "connecting", stream |-> NoStream]
  /\ pending = [c \in Conns |-> None]
  /\ sigint = FALSE
  /\ shutdown = [pc |-> "none", stream |-> NoStream]
  /\ casts = [c \in Conns |-> 0]
  /\ requests = 0
  /\ failures = failed

Init == InitWith(0)

\* The same with a store that never fails.
ReliableInit == InitWith(MaxFailures)

\* The process has not exited.
Running == shutdown.pc # "exited"

\* -------------------------------------------------------- connectMongoDB
\* The catch block without its setTimeout.
ConnectCatchNoRetry ==
  /\ inbox' = Broadcast(ConnectionFailedMsg)
  /\ casts' = Counted
  /\ startup' = [pc |-> "failed", stream |-> NoStream]
  /\ UNCHANGED sigint

\* The catch block: one error broadcast, one retry timer.
ConnectCatch ==
  /\ inbox' = Broadcast(ConnectionFailedMsg)
  /\ casts' = Counted
  /\ startup' = [pc |-> "retryWait", stream |-> NoStream]
  /\ UNCHANGED sigint

\* ConnectDone with a retry scheduled all the same.
ConnectDoneRetries ==
  /\ startup' = [pc |-> "retryWait", stream |-> NoStream]
  /\ sigint' = TRUE

\* After `await startWatching(...)` has returned: the SIGINT handler is
\* registered and connectMongoDB ends.
ConnectDone ==
  /\ startup' = [pc |-> "done", stream |-> NoStream]
  /\ sigint' = TRUE

\* The end of the startup call of startWatching, by its outcome.
StartupWatchRest(strs, outcome) ==
  /\ WatchRest(strs, MONGODB_DATABASE, MONGODB_COLLECTION, outcome)
  /\ IF outcome = "ok"
       THEN /\ inbox' = Broadcast(StatusMsg(WatchDescription(MONGODB_DATABASE, MONGODB_COLLECTION)))
            /\ casts' = Counted
            /\ ConnectDone
       ELSE ConnectCatch

\* mongoClient.connect() resolves and startWatching is called with the
\* configured target: it runs to its end, or suspends closing a stream that a
\* viewer request opened in the meantime.
ConnectOk ==
  /\ Running
  /\ startup.pc = "connecting"
  /\ liveClients' = liveClients \cup {mongoClient}
  /\ IF currentChangeStream # NoStream
       THEN /\ streams' = CloseCalled(streams, currentChangeStream)
            /\ startup' = [pc |-> "closing", stream |-> currentChangeStream]
            /\ UNCHANGED <<currentChangeStream, currentWatchDescription, failures,
                           inbox, casts, sigint>>
       ELSE \E outcome \in Outcomes : StartupWatchRest(streams, outcome)
  /\ UNCHANGED <<env, clients, readyState, mongoClient, oplog, raws, tv, pending, shutdown, requests>>

\* mongoClient.connect() rejects.
ConnectFail ==
  /\ Running
  /\ startup.pc = "connecting"
  /\ failures < MaxFailures
  /\ failures' = failures + 1
  /\ ConnectCatch
  /\ UNCHANGED <<env, clients, readyState, mongoClient, liveClients,
                 currentChangeStream, currentWatchDescription, streams, oplog, raws, tv,
                 pending, shutdown, requests>>

\* The close awaited by the startup call of startWatching settles.
StartupResume ==
  /\ Running
  /\ startup.pc = "closing"
  /\ \/ \E outcome \in Outcomes :
          StartupWatchRest(CloseDone(streams, startup.stream), outcome)
     \/ \E left \in {"open", "closed"} :
          /\ CloseThrows(startup.stream, left)
          /\ ConnectCatch
  /\ UNCHANGED <<env, clients, readyState, mongoClient, liveClients, oplog, raws, tv,
                 pending, shutdown, requests>>

\* The retry timer fires: connectMongoDB runs again, replaces mongoClient and
\* suspends in connect().
RetryTimer ==
  /\ Running
  /\ startup.pc = "retryWait"
  /\ mongoClient' = mongoClient + 1
  /\ startup' = [pc |-> "connecting", stream |-> NoStream]
  /\ UNCHANGED <<env, clients, readyState, inbox, liveClients, currentChangeStream,
                 currentWatchDescription, streams, oplog, raws, tv, pending, sigint,
                 shutdown, casts, requests, failures>>

\* ------------------------------------------------------ WebSocket handlers
\* JoinMessages with the last status replayed as a broadcast.
JoinMessagesReplay ==
  <<WelcomeMsg>> \o
  (IF currentWatchDescription # ""
     THEN <<StatusMsg(currentWatchDescription),
            [StatusMsg(currentWatchDescription) EXCEPT !.cast = TRUE]>>
     ELSE <<>>)

\* What a connection is sent when it joins: the welcome, and the status when
\* currentWatchDescription is not empty.
JoinMessages ==
  <<WelcomeMsg>> \o
  (IF currentWatchDescription # "" THEN <<StatusMsg(currentWatchDescription)>> ELSE <<>>)

\* WsConnection without the registration.
WsConnectionUnregistered(c) ==
  /\ Running
  /\ readyState[c] = "NEW"
  /\ \A d \in Conns : d < c => readyState[d] # "NEW"
  /\ clients' = clients
  /\ readyState' = [readyState EXCEPT ![c] = "OPEN"]
  /\ inbox' = [inbox EXCEPT ![c] = @ \o JoinMessages]
  /\ UNCHANGED <<env, mongoClient, liveClients, currentChangeStream,
                 currentWatchDescription, streams, oplog, raws, tv, startup, pending,
                 sigint, shutdown, casts, requests, failures>>

\* wss.on('connection'): a new connection is registered and greeted.
WsConnection(c) ==
  /\ Running
  /\ readyState[c] = "NEW"
  /\ \A d \in Conns : d < c => readyState[d] # "NEW"
  /\ clients' = clients \cup {c}
  /\ readyState' = [readyState EXCEPT ![c] = "OPEN"]
  /\ inbox' = [inbox EXCEPT ![c] = @ \o JoinMessages]
  /\ UNCHANGED <<env, mongoClient, liveClients, currentChangeStream,
                 currentWatchDescription, streams, oplog, raws, tv, startup, pending,
                 sigint, shutdown, casts, requests, failures>>

\* The peer or the network starts closing the socket: readyState leaves OPEN
\* before any event reaches the handlers.
WsClosing(c) ==
  /\ Running
  /\ readyState[c] = "OPEN"
  /\ readyState' = [readyState EXCEPT ![c] = "CLOSING"]
  /\ UNCHANGED <<env, clients, inbox, mongoClient, liveClients, currentChangeStream,
                 currentWatchDescription, streams, oplog, raws, tv, startup, pending,
                 sigint, shutdown, casts, requests, failures>>

\* ws.on('error'): the connection is removed from the registry; its 'close'
\* is still to come.
WsError(c) ==
  /\ Running
  /\ readyState[c] = "CLOSING"
  /\ c \in clients
  /\ clients' = clients \ {c}
  /\ UNCHANGED <<env, readyState, inbox, mongoClient, liveClients,
                 currentChangeStream, currentWatchDescription, streams, oplog, raws, tv,
                 startup, pending, sigint, shutdown, casts, requests, failures>>

\* WsClose without the removal from the registry.
WsCloseKeeps(c) ==
  /\ Running
  /\ readyState[c] = "CLOSING"
  /\ readyState' = [readyState EXCEPT ![c] = "CLOSED"]
  /\ inbox' = [inbox EXCEPT ![c] = <<>>]
  /\ casts' = [casts EXCEPT ![c] = 0]
  /\ UNCHANGED <<env, clients, mongoClient, liveClients, currentChangeStream,
                 currentWatchDescription, streams, oplog, raws, tv, startup, pending,
                 sigint, shutdown, requests, failures>>

\* ws.on('close'): the connection is removed from the registry.  The socket is
\* gone, and what its peer had been sent is no longer followed.
WsClose(c) ==
  /\ Running
  /\ readyState[c] = "CLOSING"
  /\ clients' = clients \ {c}
  /\ readyState' = [readyState EXCEPT ![c] = "CLOSED"]
  /\ inbox' = [inbox EXCEPT ![c] = <<>>]
  /\ casts' = [casts EXCEPT ![c] = 0]
  /\ UNCHANGED <<env, mongoClient, liveClients, currentChangeStream,
                 currentWatchDescription, streams, oplog, raws, tv, startup, pending,
                 sigint, shutdown, requests, failures>>

\* RejectLocked with the error broadcast to every viewer.
RejectLockedToAll(c) ==
  /\ inbox' = Broadcast(LockedMsg)
  /\ UNCHANGED <<currentChangeStream, currentWatchDescription, streams, pending,
                 casts, failures>>

\* The locked branch of the message handler: one error to the requester.
RejectLocked(c) ==
  /\ inbox' = [inbox EXCEPT ![c] = Send(@, LockedMsg)]
  /\ UNCHANGED <<currentChangeStream, currentWatchDescription, streams, pending,
                 casts, failures>>

\* ViewerWatchRest without the status broadcast.
ViewerWatchRestSilent(strs, database, collection, outcome) ==
  /\ WatchRest(strs, database, collection, outcome)
  /\ UNCHANGED <<inbox, casts>>

\* The end of a viewer's call of startWatching, by its outcome; an exception
\* is caught and logged by the message handler.
ViewerWatchRest(strs, database, collection, outcome) ==
  /\ WatchRest(strs, database, collection, outcome)
  /\ IF outcome = "ok"
       THEN /\ inbox' = Broadcast(StatusMsg(WatchDescription(database, collection)))
            /\ casts' = Counted
       ELSE UNCHANGED <<inbox, casts>>

\* selectCollection that leaves the watch alone when the request names the
\* target already watched.
SelectCollectionOnce(c, database, collection) ==
  IF ~LockedTarget /\ currentChangeStream # NoStream
     /\ WatchDescription(database, collection) = currentWatchDescription
    THEN /\ Running
         /\ readyState[c] = "OPEN"
         /\ requests < MaxRequests
         /\ requests' = requests + 1
         /\ UNCHANGED <<env, clients, readyState, inbox, mongoClient, liveClients,
                        currentChangeStream, currentWatchDescription, streams, oplog,
                        raws, tv, startup, pending, sigint, shutdown, casts, failures>>
    ELSE
      /\ Running
      /\ readyState[c] = "OPEN"
      /\ requests < MaxRequests
      /\ requests' = requests + 1
      /\ IF LockedTarget
           THEN RejectLocked(c)
           ELSE /\ pending[c] = None
                /\ IF currentChangeStream # NoStream
                     THEN /\ streams' = CloseCalled(streams, currentChangeStream)
                          /\ pending' = [pending EXCEPT ![c] =
                                           <<database, collection, currentChangeStream>>]
                          /\ UNCHANGED <<currentChangeStream, currentWatchDescription,
                                         failures, inbox, casts>>
                     ELSE /\ \E outcome \in Outcomes :
                               ViewerWatchRest(streams, database, collection, outcome)
                          /\ UNCHANGED pending
      /\ UNCHANGED <<env, clients, readyState, mongoClient, liveClients, oplog, raws, tv,
                     startup, sigint, shutdown>>

\* ws.on('message') with {type: 'selectCollection', database, collection}.
SelectCollection(c, database, collection) ==
  /\ Running
  /\ readyState[c] = "OPEN"
  /\ requests < MaxRequests
  /\ requests' = requests + 1
  /\ IF LockedTarget
       THEN RejectLocked(c)
       ELSE /\ pending[c] = None
            /\ IF currentChangeStream # NoStream
                 THEN /\ streams' = CloseCalled(streams, currentChangeStream)
                      /\ pending' = [pending EXCEPT ![c] =
                                       <<database, collection, currentChangeStream>>]
                      /\ UNCHANGED <<currentChangeStream, currentWatchDescription,
                                     failures, inbox, casts>>
                 ELSE /\ \E outcome \in Outcomes :
                           ViewerWatchRest(streams, database, collection, outcome)
                      /\ UNCHANGED pending
  /\ UNCHANGED <<env, clients, readyState, mongoClient, liveClients, oplog, raws, tv,
                 startup, sigint, shutdown>>

\* The close awaited by a viewer's call of startWatching settles.
ViewerResume(c) ==
  /\ Running
  /\ pending[c] # None
  /\ pending' = [pending EXCEPT ![c] = None]
  /\ \/ \E outcome \in Outcomes :
          ViewerWatchRest(CloseDone(streams, pending[c][3]),
                          pending[c][1], pending[c][2], outcome)
     \/ \E left \in {"open", "closed"} :
          /\ CloseThrows(pending[c][3], left)
          /\ UNCHANGED <<inbox, casts>>
  /\ UNCHANGED <<env, clients, readyState, mongoClient, liveClients, oplog, raws, tv,
                 startup, sigint, shutdown, requests>>

\* ws.on('message') with a message that parses and has another type: nothing
\* happens.
OtherMessage(c) ==
  /\ Running
  /\ readyState[c] = "OPEN"
  /\ UNCHANGED vars

\* MalformedMessage with the sender removed from the registry.
MalformedMessageEvicts(c) ==
  /\ Running
  /\ readyState[c] = "OPEN"
  /\ requests < MaxRequests
  /\ requests' = requests + 1
  /\ clients' = clients \ {c}
  /\ UNCHANGED <<env, readyState, inbox, mongoClient, liveClients,
                 currentChangeStream, currentWatchDescription, streams, oplog, raws, tv,
                 startup, pending, sigint, shutdown, casts, failures>>

\* ws.on('message') with a message that JSON.parse rejects: the exception is
\* caught and logged by the handler.
MalformedMessage(c) ==
  /\ Running
  /\ readyState[c] = "OPEN"
  /\ requests < MaxRequests
  /\ requests' = requests + 1
  /\ UNCHANGED <<env, clients, readyState, inbox, mongoClient, liveClients,
                 currentChangeStream, currentWatchDescription, streams, oplog, raws, tv,
                 startup, pending, sigint, shutdown, casts, failures>>

\* ------------------------------------------------------- the change feed
\* A change stream notification as the driver hands it to the 'change'
\* listener; ns is <<db, coll>> with "" for a part the notification lacks,
\* and a field the notification lacks is undefined.
Change(operationType, ns, documentKey, fullDocument, updateDescription) ==
  [operationType |-> operationType, ns |-> ns, documentKey |-> documentKey,
   fullDocument |-> fullDocument, updateDescription |-> updateDescription]

\* Documents of the store: two with the same fields in different orders, one
\* with an identifier, binary data, a date, an array and a nested document,
\* the empty document, and two whose own field _bsontype names a class of the
\* BSON library.
Documents ==
  {Object(<< <<"a", Num("1")>>, <<"b", Str("x")>> >>),
   Object(<< <<"b", Str("x")>>, <<"a", Num("1")>> >>),
   Object(<< <<"_id", ObjectId("64a0")>>, <<"data", Binary("ff00")>>,
             <<"at", Value("Date", "2024-01-01T00:00:00.000Z", <<>>)>>,
             <<"tags", Array(<< <<"0", Str("new")>>, <<"1", ObjectId("64a1")>> >>)>>,
             <<"sub", Object(<< <<"z", Num("1")>>, <<"a", Num("2")>> >>)>> >>),
   Object(<<>>),
   Object(<< <<"_bsontype", Str("ObjectId")>>, <<"a", Num("1")>> >>),
   Object(<< <<"_bsontype", Str("Binary")>>, <<"a", Num("1")>> >>)}

DocumentKey == Object(<< <<"_id", ObjectId("64a0")>> >>)

UpdateDescription ==
  Object(<< <<"updatedFields", Object(<< <<"b", Str("y")>> >>)>>,
            <<"removedFields", Array(<< <<"0", Str("a")>> >>)>> >>)

\* insert of {a: 1, b: "x"}.
PlainInsert(ns) ==
  Change("insert", ns, DocumentKey,
         Object(<< <<"a", Num("1")>>, <<"b", Str("x")>> >>), undefined)

\* The notifications of a change in namespace ns: inserts and replaces carry
\* the document, an update carries its description and the document looked up
\* (fullDocument: 'updateLookup' of watchOptions), which is null when the
\* document is gone by then, a delete carries the key alone; drop, rename,
\* dropDatabase and invalidate carry none of them, the last two not the
\* collection, or not the namespace, either.
RawChanges(ns) ==
  {Change(op, ns, DocumentKey, doc, undefined) :
     op \in {"insert", "replace"}, doc \in Documents}
  \cup {Change("update", ns, DocumentKey, doc, UpdateDescription) :
           doc \in Documents \cup {null}}
  \cup {Change("delete", ns, DocumentKey, undefined, undefined)}
  \cup {Change(op, ns, undefined, undefined, undefined) : op \in {"drop", "rename"}}
  \cup {Change("dropDatabase", <<ns[1], "">>, undefined, undefined, undefined),
         Change("invalidate", <<"", "">>, undefined, undefined, undefined)}

\* The store makes a change in namespace ns, of which the notification is
\* change.
StoreEvent(ns, change) ==
  /\ Running
  /\ Len(oplog) < MaxChanges
  /\ oplog' = Append(oplog, ns)
  /\ raws' = Append(raws, change)
  /\ UNCHANGED <<env, tv, clients, readyState, inbox, mongoClient, liveClients,
                 currentChangeStream, currentWatchDescription, streams, startup,
                 pending, sigint, shutdown, casts, requests, failures>>

\* The store inserts {a: 1, b: "x"} in namespace ns.
StoreChange(ns) ==
  /\ Running
  /\ Len(oplog) < MaxChanges
  /\ oplog' = Append(oplog, ns)
  /\ raws' = Append(raws, PlainInsert(ns))
  /\ UNCHANGED <<env, tv, clients, readyState, inbox, mongoClient, liveClients,
                 currentChangeStream, currentWatchDescription, streams, startup,
                 pending, sigint, shutdown, casts, requests, failures>>

\* Stream s passes the next store change; when it watches the change's
\* namespace it emits 'change' and the listener broadcasts the event.
StreamChange(s) ==
  /\ Running
  /\ s \in DOMAIN streams
  /\ streams[s].state = "open"
  /\ streams[s].pos < Len(oplog)
  /\ LET n == streams[s].pos + 1 IN
       /\ streams' = [streams EXCEPT ![s].pos = n]
       /\ IF Watches(streams[s].target, oplog[n])
            THEN /\ inbox' = Broadcast(ChangeMsg(s, n))
                 /\ casts' = Counted
            ELSE UNCHANGED <<inbox, casts>>
  /\ UNCHANGED <<env, clients, readyState, mongoClient, liveClients,
                 currentChangeStream, currentWatchDescription, oplog, raws, tv, startup,
                 pending, sigint, shutdown, requests, failures>>

\* Stream s passes the next store change and emits 'change', and the listener
\* throws before its broadcast (yaml.dump rejects the payload, as for a date
\* out of range).  Nothing in the listener catches, so the exception reaches
\* the emitter: the driver either turns it into the stream's 'error' event,
\* whose listener broadcasts it, or lets it through, and Node ends the process
\* on the uncaught exception.
StreamChangeThrows(s, caught) ==
  /\ Running
  /\ s \in DOMAIN streams
  /\ streams[s].state = "open"
  /\ streams[s].pos < Len(oplog)
  /\ Watches(streams[s].target, oplog[streams[s].pos + 1])
  /\ failures < MaxFailures
  /\ failures' = failures + 1
  /\ streams' = [streams EXCEPT ![s].pos = @ + 1]
  /\ IF caught
       THEN /\ inbox' = Broadcast(StreamErrorMsg(s))
            /\ casts' = Counted
            /\ UNCHANGED shutdown
       ELSE /\ shutdown' = [pc |-> "exited", stream |-> NoStream]
            /\ UNCHANGED <<inbox, casts>>
  /\ UNCHANGED <<env, clients, readyState, mongoClient, liveClients,
                 currentChangeStream, currentWatchDescription, oplog, raws, tv, startup,
                 pending, sigint, requests>>

\* StreamError with a listener that only logs.
StreamErrorSilent(s, left) ==
  /\ Running
  /\ s \in DOMAIN streams
  /\ streams[s].state = "open"
  /\ failures < MaxFailures
  /\ failures' = failures + 1
  /\ streams' =
       Collected([streams EXCEPT ![s] = [@ EXCEPT !.state = left]], currentChangeStream)
  /\ UNCHANGED <<env, clients, readyState, inbox, mongoClient, liveClients,
                 currentChangeStream, currentWatchDescription, oplog, raws, tv, startup,
                 pending, sigint, shutdown, casts, requests>>

\* Stream s emits 'error': the listener broadcasts the error and does nothing
\* else.  The driver leaves the stream open or closes it.
StreamError(s, left) ==
  /\ Running
  /\ s \in DOMAIN streams
  /\ streams[s].state = "open"
  /\ failures < MaxFailures
  /\ failures' = failures + 1
  /\ inbox' = Broadcast(StreamErrorMsg(s))
  /\ casts' = Counted
  /\ streams' =
       Collected([streams EXCEPT ![s] = [@ EXCEPT !.state = left]], currentChangeStream)
  /\ UNCHANGED <<env, clients, readyState, mongoClient, liveClients,
                 currentChangeStream, currentWatchDescription, oplog, raws, tv, startup,
                 pending, sigint, shutdown, requests>>

\* -------------------------------------------------------------- HTTP API
\* `let mongoClient;` before connectMongoDB has first run.
NoClient == 0

\* GET /api/databases and GET /api/collections/:db: the status codes the
\* handler can answer with in the current state.  It answers 503 when
\* mongoClient is not set; otherwise it issues the listing on mongoClient,
\* connected or not, and answers 200 when the listing resolves and 500 when it
\* rejects.
ApiStatuses == IF mongoClient = NoClient THEN {503} ELSE {200, 500}

\* ----------------------------------------------------------------- SIGINT
Exited == [pc |-> "exited", stream |-> NoStream]

\* The process receives SIGINT.  While connectMongoDB has not registered the
\* handler, Node's default action ends the process at once.  Otherwise the
\* handler runs to its first await: the close of currentChangeStream when there
\* is one, else the close of mongoClient.
Sigint ==
  /\ Running
  /\ shutdown.pc = "none"
  /\ IF ~sigint
       THEN /\ shutdown' = Exited
            /\ UNCHANGED streams
       ELSE IF currentChangeStream # NoStream
         THEN /\ streams' = CloseCalled(streams, currentChangeStream)
              /\ shutdown' = [pc |-> "closingStream", stream |-> currentChangeStream]
         ELSE /\ shutdown' = [pc |-> "closingClient", stream |-> NoStream]
              /\ UNCHANGED streams
  /\ UNCHANGED <<env, clients, readyState, inbox, mongoClient, liveClients,
                 currentChangeStream, currentWatchDescription, oplog, raws, tv, startup,
                 pending, sigint, casts, requests, failures>>

\* The close awaited by the SIGINT handler settles.  When it resolves the
\* handler goes on to `await mongoClient.close()`; when it rejects nothing
\* catches the rejection and Node ends the process.
SigintStreamClosed ==
  /\ Running
  /\ shutdown.pc = "closingStream"
  /\ \/ /\ streams' = Collected(CloseDone(streams, shutdown.stream), currentChangeStream)
        /\ shutdown' = [pc |-> "closingClient", stream |-> NoStream]
        /\ UNCHANGED <<currentChangeStream, currentWatchDescription, failures>>
     \/ \E left \in {"open", "closed"} :
          /\ CloseThrows(shutdown.stream, left)
          /\ shutdown' = Exited
  /\ UNCHANGED <<env, clients, readyState, inbox, mongoClient, liveClients, oplog, raws, tv,
                 startup, pending, sigint, casts, requests>>

\* mongoClient.close() has settled: process.exit(0).
SigintExit ==
  /\ Running
  /\ shutdown.pc = "closingClient"
  /\ liveClients' = liveClients \ {mongoClient}
  /\ shutdown' = Exited
  /\ UNCHANGED <<env, clients, readyState, inbox, mongoClient, currentChangeStream,
                 currentWatchDescription, streams, oplog, raws, tv, startup, pending,
                 sigint, casts, requests, failures>>

\* ------------------------------------------------------------- the system
Next ==
  \/ ConnectOk
  \/ ConnectFail
  \/ StartupResume
  \/ RetryTimer
  \/ \E c \in Conns : WsConnection(c)
  \/ \E c \in Conns : WsClosing(c)
  \/ \E c \in Conns : WsError(c)
  \/ \E c \in Conns : WsClose(c)
  \/ \E c \in Conns : \E database \in Databases : \E collection \in Collections :
       SelectCollection(c, database, collection)
  \/ \E c \in Conns : ViewerResume(c)
  \/ \E c \in Conns : OtherMessage(c)
  \/ \E c \in Conns : MalformedMessage(c)
  \/ \E ns \in Namespaces : StoreChange(ns)
  \/ \E ns \in Namespaces : \E change \in RawChanges(ns) : StoreEvent(ns, change)
  \/ \E s \in StreamIds : StreamChange(s)
  \/ \E s \in StreamIds : \E caught \in BOOLEAN : StreamChangeThrows(s, caught)
  \/ \E s \in StreamIds : \E left \in {"open", "closed"} : StreamError(s, left)
  \/ Sigint
  \/ SigintStreamClosed
  \/ SigintExit
  \/ handleMessage
  \/ togglePause
  \/ clearScreen

Spec == Init /\ [][Next]_vars

\* The hub alone: viewers come and go while the startup stream reports the
\* store's changes.
HubNext ==
  \/ ConnectOk
  \/ \E c \in Conns : WsConnection(c)
  \/ \E c \in Conns : WsClosing(c)
  \/ \E c \in Conns : WsError(c)
  \/ \E c \in Conns : WsClose(c)
  \/ \E ns \in Namespaces : StoreChange(ns)
  \/ \E s \in StreamIds : StreamChange(s)

HubSpec == ReliableInit /\ [][HubNext]_vars

\* The session alone: the startup path and the viewers' requests.
SessionNext ==
  \/ ConnectOk
  \/ ConnectFail
  \/ StartupResume
  \/ RetryTimer
  \/ \E c \in Conns : WsConnection(c)
  \/ \E c \in Conns : \E database \in Databases : \E collection \in Collections :
       SelectCollection(c, database, collection)
  \/ \E c \in Conns : ViewerResume(c)
  \/ \E s \in StreamIds : \E left \in {"open", "closed"} : StreamError(s, left)

SessionSpec == Init /\ [][SessionNext]_vars

\* The feed: viewers retarget while the store makes changes and never fails.
FeedNext ==
  \/ ConnectOk
  \/ \E c \in Conns : WsConnection(c)
  \/ \E c \in Conns : \E database \in Databases : \E collection \in Collections :
       SelectCollection(c, database, collection)
  \/ \E c \in Conns : ViewerResume(c)
  \/ \E ns \in Namespaces : StoreChange(ns)
  \/ \E s \in StreamIds : StreamChange(s)

FeedSpec == ReliableInit /\ [][FeedNext]_vars

\* A deployment whose target is fixed by the environment.
LockedNext ==
  \/ ConnectOk
  \/ ConnectFail
  \/ RetryTimer
  \/ \E c \in Conns : WsConnection(c)
  \/ \E c \in Conns : WsClosing(c)
  \/ \E c \in Conns : WsError(c)
  \/ \E c \in Conns : WsClose(c)
  \/ \E c \in Conns : \E database \in Databases : \E collection \in Collections :
       SelectCollection(c, database, collection)
  \/ \E c \in Conns : OtherMessage(c)

FixedInit == Init /\ env = [database |-> "db1", collection |-> "c1"]

LockedSpec == FixedInit /\ [][LockedNext]_vars

\* The startup path alone with the viewers' requests, under the scheduling
\* the event loop guarantees: a connect attempt settles, an awaited close
\* settles and a timer that was set fires.
LiveNext ==
  \/ ConnectOk
  \/ ConnectFail
  \/ StartupResume
  \/ RetryTimer
  \/ \E c \in Conns : WsConnection(c)
  \/ \E c \in Conns : \E database \in Databases : \E collection \in Collections :
       SelectCollection(c, database, collection)
  \/ \E c \in Conns : ViewerResume(c)

LiveSpec ==
  /\ Init
  /\ [][LiveNext]_vars
  /\ WF_vars(ConnectOk \/ ConnectFail)
  /\ WF_vars(StartupResume)
  /\ WF_vars(RetryTimer)

\* The viewers: they come, send messages of every kind and go, while the
\* store never fails.
ViewerNext ==
  \/ ConnectOk
  \/ \E c \in Conns : WsConnection(c)
  \/ \E c \in Conns : WsClosing(c)
  \/ \E c \in Conns : WsClose(c)
  \/ \E c \in Conns : \E database \in Databases : \E collection \in Collections :
       SelectCollection(c, database, collection)
  \/ \E c \in Conns : ViewerResume(c)
  \/ \E c \in Conns : MalformedMessage(c)
  \/ \E c \in Conns : OtherMessage(c)

ViewerSpec == ReliableInit /\ [][ViewerNext]_vars

\* Values of the collection field of a viewer request: unset or empty, '*'
\* and a name.
TargetCollections == {"", "*", "c1"}

\* Target resolution: the startup path and viewers' requests of every shape.
TargetNext ==
  \/ ConnectOk
  \/ \E c \in Conns : WsConnection(c)
  \/ \E c \in Conns : \E database \in Databases : \E collection \in TargetCollections :
       SelectCollection(c, database, collection)
  \/ \E c \in Conns : ViewerResume(c)

TargetSpec == ReliableInit /\ [][TargetNext]_vars

\* Shutdown: the session with its upstream failures, and SIGINT.
ShutdownNext ==
  \/ ConnectOk
  \/ ConnectFail
  \/ StartupResume
  \/ RetryTimer
  \/ \E c \in Conns : WsConnection(c)
  \/ \E c \in Conns : \E database \in Databases : \E collection \in Collections :
       SelectCollection(c, database, collection)
  \/ \E c \in Conns : ViewerResume(c)
  \/ \E s \in StreamIds : \E left \in {"open", "closed"} : StreamError(s, left)
  \/ Sigint
  \/ SigintStreamClosed
  \/ SigintExit

\* Every failure the process can meet, with one viewer: the session, the feed
\* and the viewer's messages with their failures, and SIGINT.
FaultNext ==
  \/ ConnectOk
  \/ ConnectFail
  \/ StartupResume
  \/ RetryTimer
  \/ WsConnection(1)
  \/ \E c \in Conns : \E database \in Databases : \E collection \in Collections :
       SelectCollection(c, database, collection)
  \/ \E c \in Conns : ViewerResume(c)
  \/ \E c \in Conns : MalformedMessage(c)
  \/ \E ns \in Namespaces : StoreChange(ns)
  \/ \E s \in StreamIds : StreamChange(s)
  \/ \E s \in StreamIds : \E caught \in BOOLEAN : StreamChangeThrows(s, caught)
  \/ \E s \in StreamIds : \E left \in {"open", "closed"} : StreamError(s, left)
  \/ Sigint
  \/ SigintStreamClosed
  \/ SigintExit

\* A deployment that configures no target: the startup path watches the
\* whole deployment and viewers may retarget.
OpenInit == Init /\ env = [database |-> "", collection |-> ""]

ShutdownSpec == OpenInit /\ [][ShutdownNext]_vars

FaultSpec == OpenInit /\ [][FaultNext]_vars

\* Stream errors: the startup path and joining and leaving viewers with a
\* store that fails up to MaxStreamErrors times.
ErrorNext ==
  \/ ConnectOk
  \/ ConnectFail
  \/ RetryTimer
  \/ \E c \in Conns : WsConnection(c)
  \/ \E c \in Conns : WsClosing(c)
  \/ \E s \in StreamIds : \E left \in {"open", "closed"} : StreamError(s, left)

ErrorInit ==
  /\ InitWith(MaxFailures - MaxStreamErrors)
  /\ env = [database |-> "", collection |-> ""]

ErrorSpec == ErrorInit /\ [][ErrorNext]_vars

\* The browser client: messages arrive while the user pauses and resumes.
PauseNext ==
  \/ handleMessage
  \/ togglePause

PauseSpec == OpenInit /\ [][PauseNext]_vars

\* The browser client with the user clearing the screen as well.
TvNext ==
  \/ handleMessage
  \/ togglePause
  \/ clearScreen

TvSpec == OpenInit /\ [][TvNext]_vars

\* The normalizer: one viewer of the whole deployment while the store makes
\* changes of every kind in one collection.
NormalizeNext ==
  \/ ConnectOk
  \/ WsConnection(1)
  \/ \E change \in RawChanges(<<"db1", "c1">>) : StoreEvent(<<"db1", "c1">>, change)
  \/ \E s \in StreamIds : StreamChange(s)

NormalizeInit == ReliableInit /\ env = [database |-> "", collection |-> ""]

NormalizeSpec == NormalizeInit /\ [][NormalizeNext]_vars

\* ================================================================ claims
\* Cast messages among the first k of a connection's inbox.
RECURSIVE NumCast(_, _)
NumCast(box, k) ==
  IF k = 0 THEN 0 ELSE NumCast(box, k - 1) + (IF box[k].cast THEN 1 ELSE 0)

Last(box) == box[Len(box)]

\* In this step connection c was sent one more message by broadcast.
CastTo(c) ==
  /\ Len(inbox'[c]) = Len(inbox[c]) + 1
  /\ SubSeq(inbox'[c], 1, Len(inbox[c])) = inbox[c]
  /\ Last(inbox'[c]).cast

\* In this step broadcast was called while c was registered.
CalledWith(c) == casts'[c] = casts[c] + 1

\* C1: at most one change stream is open (not yet fully closed) at any
\* instant, for every interleaving of startWatching invocations.
C1_AtMostOneOpenStream == Cardinality(OpenStreams) <= 1

\* C2: no viewer connection is sent the same store change twice.
C2_ChangeDeliveredAtMostOnce ==
  \A c \in Conns : \A i, j \in DOMAIN inbox[c] :
    (i < j /\ inbox[c][i].type = "change" /\ inbox[c][j].type = "change")
      => inbox[c][i].n # inbox[c][j].n

\* C3: startWatching invocations are serialized: while one is suspended
\* between its close and its open, no other one has started.
C3_RetargetsSerialized == Cardinality(InFlight) <= 1

\* C4 as stated: a broadcast call sends the event to every connection that is
\* registered during the call and to no other.
C4_SentToAllRegistered ==
  [][\A c \in Conns : CalledWith(c) <=> CastTo(c)]_vars

\* C4 as amended: a broadcast call sends the event to every registered
\* connection whose readyState is OPEN and to no other connection, and all of
\* them are sent the same event.
C4_SentToAllRegisteredOpen ==
  [][/\ \A c \in Conns : CastTo(c) <=> (CalledWith(c) /\ readyState[c] = "OPEN")
     /\ \A c, d \in Conns : (CastTo(c) /\ CastTo(d)) => Last(inbox'[c]) = Last(inbox'[d])]_vars

\* Both connections were sent a first broadcast; the second broadcast was
\* sent to connection 1 alone, connection 2 being registered but closing.
C4_Witness ==
  /\ clients = {1, 2}
  /\ readyState[1] = "OPEN" /\ readyState[2] = "CLOSING"
  /\ casts[1] = 2 /\ casts[2] = 2
  /\ NumCast(inbox[1], Len(inbox[1])) = 2
  /\ NumCast(inbox[2], Len(inbox[2])) = 1

\* C5: a connection has been sent no more broadcast messages than broadcast
\* calls were made since it was registered, and everything else it has been
\* sent is the welcome, then the status, of its join (and the answers to its
\* own rejected requests).
C5_NothingFromBeforeJoin ==
  \A c \in Conns :
    /\ NumCast(inbox[c], Len(inbox[c])) <= casts[c]
    /\ \A i \in DOMAIN inbox[c] :
         \/ inbox[c][i].cast
         \/ i = 1 /\ inbox[c][i] = WelcomeMsg
         \/ i = 2 /\ inbox[c][i].type = "status" /\ inbox[c][1] = WelcomeMsg
         \/ i > 1 /\ inbox[c][i] = LockedMsg

\* Connection 2 joined after a broadcast that connection 1 was sent, and has
\* been sent a later broadcast.
C5_Witness ==
  /\ readyState[1] = "OPEN" /\ readyState[2] = "OPEN"
  /\ casts[2] > 0
  /\ casts[1] > casts[2]
  /\ NumCast(inbox[2], Len(inbox[2])) = casts[2]

\* C6: a connection is sent the change events of one stream in the order the
\* stream emitted them.
C6_ChangesInEmissionOrder ==
  \A c \in Conns : \A i \in DOMAIN inbox[c] :
    inbox[c][i].type = "change" =>
      \A j \in (i + 1)..Len(inbox[c]) :
        (/\ inbox[c][j].type = "change"
         /\ inbox[c][i].stream = inbox[c][j].stream)
          => inbox[c][i].n < inbox[c][j].n

\* A connection has been sent two change events of the same stream.
C6_Witness ==
  \E c \in Conns : \E i, j \in DOMAIN inbox[c] :
    /\ i < j
    /\ inbox[c][i].type = "change" /\ inbox[c][j].type = "change"
    /\ inbox[c][i].stream = inbox[c][j].stream

\* connectMongoDB is connecting, opening its stream, or waiting to retry.
ReconnectPending == startup.pc \in {"connecting", "closing", "retryWait"}

\* C7: after every 'error' event of a change stream a reconnection is under
\* way: the handler leaves a connect attempt in progress or scheduled.
C7_ReconnectAfterStreamError ==
  [][(\E s \in StreamIds : \E left \in {"open", "closed"} : StreamError(s, left))
       => ReconnectPending']_vars

\* In this step every connection broadcast sends to was sent the
\* connection-failed error, and nobody anything else.
OneConnectionError ==
  \A c \in Conns :
    IF c \in clients /\ readyState[c] = "OPEN"
      THEN inbox'[c] = Append(inbox[c], [ConnectionFailedMsg EXCEPT !.cast = TRUE])
      ELSE inbox'[c] = inbox[c]

\* C8: every failed connectMongoDB attempt broadcasts one error and leaves
\* one retry scheduled; a scheduled retry is always made; and once the store
\* stops failing the server comes to hold a change stream.
C8_RetryLoopNeverGivesUp ==
  /\ [][((ConnectOk \/ ConnectFail \/ StartupResume) /\ failures' # failures)
          => (startup'.pc = "retryWait" /\ OneConnectionError)]_vars
  /\ [](startup.pc = "retryWait" => <>(startup.pc = "connecting"))
  /\ <>(/\ startup.pc = "done"
         /\ currentChangeStream # NoStream
         /\ streams[currentChangeStream].state = "open")

\* A connect attempt failed, the retry was made and the server holds a stream.
C8_Witness ==
  /\ mongoClient > 1
  /\ startup.pc = "done"
  /\ currentChangeStream # NoStream
  /\ streams[currentChangeStream].state = "open"

BothConfigured == env.database # "" /\ env.collection # ""

AnySelectCollection(c) ==
  \E database \in Databases : \E collection \in Collections :
    SelectCollection(c, database, collection)

\* C9: with both MONGODB_DATABASE and MONGODB_COLLECTION configured, every
\* 'selectCollection' request is answered with the error and leaves the
\* watched target as it was; no stream ever watches another target than the
\* configured one and no viewer's startWatching call is ever in progress.
C9_LockedTargetNeverChanges ==
  /\ [][\A c \in Conns : (BothConfigured /\ AnySelectCollection(c)) =>
          /\ Last(inbox'[c]) = LockedMsg
          /\ UNCHANGED <<currentWatchDescription, currentChangeStream, streams>>]_vars
  /\ [](BothConfigured =>
          /\ currentWatchDescription \in {"", WatchDescription(env.database, env.collection)}
          /\ \A s \in DOMAIN streams :
               streams[s].target \in {NoTarget, WatchTarget(env.database, env.collection)}
          /\ \A c \in Conns : pending[c] = None)

\* The target is fixed, the configured stream is open and a viewer's request
\* has been answered with the error.
C9_Witness ==
  /\ BothConfigured
  /\ currentChangeStream # NoStream
  /\ currentWatchDescription = "db1.c1"
  /\ \E c \in Conns : \E i \in DOMAIN inbox[c] : inbox[c][i] = LockedMsg

\* C10: a 'selectCollection' request rejected because the target is fixed
\* sends exactly one message, the error, to the requester; no other
\* connection is sent anything, and no stream is closed or opened.
C10_RejectionReachesRequesterOnly ==
  [][\A c \in Conns : (BothConfigured /\ AnySelectCollection(c)) =>
       /\ inbox'[c] = Append(inbox[c], LockedMsg)
       /\ \A d \in Conns \ {c} : inbox'[d] = inbox[d]
       /\ UNCHANGED <<streams, currentChangeStream, casts>>]_vars

\* Two viewers are connected while the configured stream is open; one of them
\* has been answered with the error and the other has been sent nothing
\* beyond its join messages.
C10_Witness ==
  /\ BothConfigured
  /\ clients = {1, 2}
  /\ currentChangeStream # NoStream
  /\ streams[currentChangeStream].state = "open"
  /\ Last(inbox[1]) = LockedMsg
  /\ Len(inbox[2]) = 2

\* Whether desc is the description of target.
Describes(desc, target) == desc = target[1] \o "." \o target[2]

\* In this step a call of startWatching made for viewer c opens its stream.
ViewerOpens(c) ==
  /\ AnySelectCollection(c) \/ ViewerResume(c)
  /\ Len(streams') = Len(streams) + 1

\* The status that names the target watched after this step, as broadcast.
NewStatus == [StatusMsg(currentWatchDescription') EXCEPT !.cast = TRUE]

\* C11 as stated: unlocked and with two connections registered, a
\* 'selectCollection' that opens its stream has both connections sent the
\* status naming the new target, and nothing else.
C11_BothSentTheNewStatus ==
  [][\A c \in Conns : (~BothConfigured /\ clients = Conns /\ ViewerOpens(c)) =>
       /\ Describes(currentWatchDescription', streams'[currentChangeStream'].target)
       /\ \A d \in Conns : inbox'[d] = Append(inbox[d], NewStatus)]_vars

\* C11 as amended: unlocked, a 'selectCollection' that opens its stream has
\* every registered connection that is open at that moment sent one and the
\* same status naming the new target, and sends nothing else to anybody, the
\* requester included; with two registered open connections both are sent it.
C11_BothOpenSentTheNewStatus ==
  [][\A c \in Conns : (~BothConfigured /\ ViewerOpens(c)) =>
       /\ Describes(currentWatchDescription', streams'[currentChangeStream'].target)
       /\ \A d \in Conns :
            IF d \in clients /\ readyState[d] = "OPEN"
              THEN inbox'[d] = Append(inbox[d], NewStatus)
              ELSE inbox'[d] = inbox[d]]_vars

\* No collection is configured and both connections, which joined while the
\* startup stream was open, have been sent the status of a viewer's request
\* for db1.c1 and nothing else since their join.
C11_Witness ==
  /\ env.collection = ""
  /\ clients = Conns
  /\ \A d \in Conns :
       /\ readyState[d] = "OPEN"
       /\ Len(inbox[d]) = 3
       /\ inbox[d][3] = [StatusMsg("db1.c1") EXCEPT !.cast = TRUE]
  /\ currentWatchDescription = "db1.c1"

\* In this step a call of startWatching made for viewer c throws.
ViewerFails(c) ==
  /\ AnySelectCollection(c) \/ ViewerResume(c)
  /\ failures' = failures + 1

\* C12: when a viewer's call of startWatching throws, every registered open
\* connection is sent an error message by broadcast.
C12_RetargetFailureBroadcast ==
  [][\A c \in Conns : ViewerFails(c) =>
       \A d \in clients :
         readyState[d] = "OPEN" => (CastTo(d) /\ Last(inbox'[d]).type = "error")]_vars

\* C13: when a call of startWatching, made by the startup path or for a
\* viewer, fails to open a stream, a reconnect is scheduled: connectMongoDB is
\* connecting or waiting to retry, or another call is under way.
C13_ReconnectAfterOpenFailure ==
  [][(/\ failures' = failures + 1
      /\ currentChangeStream' = NoStream
      /\ \/ ConnectOk
         \/ StartupResume
         \/ \E c \in Conns : AnySelectCollection(c) \/ ViewerResume(c))
       => (ReconnectPending' \/ \E d \in Conns : pending'[d] # None)]_vars

\* C14: an unparseable message changes neither the registry, nor any
\* connection's state, nor what any connection has been sent, nor the watch.
C14_MalformedMessageDropped ==
  [][\A c \in Conns : MalformedMessage(c) =>
       /\ c \in clients'
       /\ UNCHANGED <<clients, readyState, inbox, casts, currentChangeStream,
                      currentWatchDescription, streams, pending>>]_vars

\* Unlocked, the one stream is the startup path's and is open, no request is
\* under way and both connections have been sent their join messages only: the
\* message a viewer has sent was unparseable.
C14_Witness ==
  /\ ~BothConfigured
  /\ requests > 0
  /\ startup.pc = "done"
  /\ Len(streams) = 1 /\ currentChangeStream = 1 /\ streams[1].state = "open"
  /\ clients = Conns
  /\ \A c \in Conns : readyState[c] = "OPEN" /\ pending[c] = None /\ Len(inbox[c]) = 2

\* A subscription is active: currentChangeStream refers to a stream.
SubscriptionActive == currentChangeStream # NoStream

\* C15: a joining connection is registered and sent the welcome; after it, it
\* is sent the status with the current description if and only if a
\* subscription is active, and nothing else.
C15_StatusIffSubscriptionActive ==
  [][\A c \in Conns : WsConnection(c) =>
       /\ c \in clients'
       /\ inbox'[c] =
            inbox[c] \o <<WelcomeMsg>> \o
            (IF SubscriptionActive
               THEN <<StatusMsg(currentWatchDescription)>>
               ELSE <<>>)]_vars

\* C16: when the process has exited, close has been called on every change
\* stream that was opened.
C16_StreamsClosedAtExit ==
  shutdown.pc = "exited" => \A s \in DOMAIN streams : streams[s].state # "open"

\* C17: in a broadcast call made while a registered connection is not open,
\* every registered connection that is open is sent the event all the same,
\* wherever the two stand in the registry.
C17_FailedPeerBlocksNobody ==
  [][\A c, d \in Conns :
       (/\ c # d
        /\ CalledWith(c) /\ readyState[c] = "OPEN"
        /\ CalledWith(d) /\ readyState[d] # "OPEN")
         => (CastTo(c) /\ ~CastTo(d))]_vars

\* Connection 1, first in the registry, is registered and closing and was not
\* sent the last broadcast; connection 2 has been sent every broadcast made
\* since it joined, the last one included.
C17_Witness ==
  /\ clients = {1, 2}
  /\ readyState[1] = "CLOSING" /\ readyState[2] = "OPEN"
  /\ NumCast(inbox[1], Len(inbox[1])) < casts[1]
  /\ casts[2] >= 1
  /\ NumCast(inbox[2], Len(inbox[2])) = casts[2]

\* C18 as stated: a broadcast call removes from the registry every registered
\* connection it could not send to.
C18_FailedPeerRemovedByBroadcast ==
  [][\A c \in Conns :
       (CalledWith(c) /\ readyState[c] # "OPEN") => c \notin clients']_vars

\* C18 as amended: a broadcast call leaves the registry as it is; a connection
\* leaves the registry only in its own 'close' or 'error' handler, and no
\* connection whose 'close' handler has run is registered.
C18_FailedPeerRemovedByItsOwnEvent ==
  /\ [][(\E c \in Conns : CalledWith(c)) => clients' = clients]_vars
  /\ [][\A c \in Conns :
          (c \in clients /\ c \notin clients') => (WsClose(c) \/ WsError(c))]_vars
  /\ [](\A c \in clients : readyState[c] \in {"OPEN", "CLOSING"})

\* A connection that is closing was passed over by two broadcast calls and is
\* still registered.
C18_Witness ==
  \E c \in clients :
    /\ readyState[c] = "CLOSING"
    /\ NumCast(inbox[c], Len(inbox[c])) + 2 <= casts[c]

\* C19: the process exits only in a step of SIGINT handling (the signal's
\* default action, or the handler); no failure and no other handler ends it.
C19_ExitOnlyBySignal ==
  [][(shutdown.pc # "exited" /\ shutdown'.pc = "exited")
       => (Sigint \/ SigintStreamClosed \/ SigintExit)]_vars

\* The target and the description the claim gives for the arguments of
\* startWatching.
ClaimedTarget(database, collection) ==
  CASE database # "" /\ collection \notin {"", "*"} -> <<database, collection>>
    [] database # "" /\ collection \in {"", "*"} -> <<database, "*">>
    [] database = "" -> <<"*", "*">>

ClaimedDescription(database, collection) ==
  CASE database # "" /\ collection \notin {"", "*"} -> database \o "." \o collection
    [] database # "" /\ collection \in {"", "*"} -> database \o ".*"
    [] database = "" -> "*.*"

\* Whether the claim has a watch with these arguments see changes in ns.
ClaimedScope(database, collection, ns) ==
  CASE database # "" /\ collection \notin {"", "*"} -> ns = <<database, collection>>
    [] database # "" /\ collection \in {"", "*"} -> ns[1] = database
    [] database = "" -> TRUE

ScopeNamespaces == {<<"db1", "c1">>, <<"db1", "c2">>, <<"db2", "c1">>}

\* When this step opens a stream, the stream and the description are the ones
\* the claim gives for the arguments.
ResolvedAsClaimed(database, collection) ==
  Len(streams') = Len(streams) + 1 =>
    /\ currentChangeStream' = Len(streams')
    /\ streams'[currentChangeStream'].target = ClaimedTarget(database, collection)
    /\ currentWatchDescription' = ClaimedDescription(database, collection)
    /\ \A ns \in ScopeNamespaces :
         Watches(streams'[currentChangeStream'].target, ns)
           <=> ClaimedScope(database, collection, ns)

\* C20: every call of startWatching that opens a stream, for the startup path
\* with the configured values or for a viewer with the values of the request,
\* watches one collection ('db.coll'), one database ('db.*') or the
\* deployment ('*.*') as the claim's three cases say.
C20_TargetResolution ==
  [][/\ \A c \in Conns : \A database \in Databases : \A collection \in TargetCollections :
          SelectCollection(c, database, collection) => ResolvedAsClaimed(database, collection)
     /\ \A c \in Conns :
          ViewerResume(c) => ResolvedAsClaimed(pending[c][1], pending[c][2])
     /\ (ConnectOk \/ StartupResume) =>
          ResolvedAsClaimed(MONGODB_DATABASE, MONGODB_COLLECTION)]_vars

\* With nothing configured the startup path watched the deployment; a viewer's
\* request replaced it with a watch on the whole database db1, and another
\* request, with an empty database, is replacing that one.
C20_Witness ==
  /\ env = [database |-> "", collection |-> ""]
  /\ currentChangeStream = 2
  /\ streams[2].target = <<"db1", "*">>
  /\ currentWatchDescription = "db1.*"
  /\ \E c \in Conns : pending[c] # None /\ pending[c][1] = "" /\ pending[c][2] = "c1"

\* The store changes of which a 'change' message was sent to some viewer.
DeliveredChanges ==
  UNION {{inbox[c][i].n : i \in {j \in DOMAIN inbox[c] : inbox[c][j].type = "change"}} :
           c \in Conns}

\* The keys of the top-level lines of a rendered text, in order.
TopKeys(yaml) ==
  LET Top(line) == line.indent = 0
      top == SelectSeq(yaml, Top)
  IN [i \in 1..Len(top) |-> top[i].key]

\* C21: for every notification that carries a full document, the change event
\* broadcast for it holds that document unchanged, its renderings are those of
\* that document, and whenever the rendering is a mapping it lists the
\* document's fields in the document's order; an insert is reported as INSERT.
C21_FullDocumentIsThePayload ==
  \A n \in DeliveredChanges :
    LET change == raws[n]
        event == changeData(change)
    IN Truthy(change.fullDocument) =>
         /\ event.raw.document = change.fullDocument
         /\ event.json = cleanForYaml(change.fullDocument)
         /\ event.yaml = toYaml(change.fullDocument)
         /\ (event.json.type = "object" /\ event.json.fields # <<>>) =>
              /\ Keys(event.json) = Keys(change.fullDocument)
              /\ TopKeys(event.yaml) = Keys(change.fullDocument)
         /\ change.operationType = "insert" => event.operation = "INSERT"

\* An insert of {a: 1, b: "x"} was broadcast and its text lists a, then b.
C21_Witness ==
  \E n \in DeliveredChanges :
    /\ raws[n] = PlainInsert(<<"db1", "c1">>)
    /\ changeData(raws[n]).operation = "INSERT"
    /\ changeData(raws[n]).yaml = <<Line(0, "a", "1"), Line(0, "b", "x")>>
    /\ changeData(raws[n]).json = raws[n].fullDocument

\* C22: the payload of a change event is the full document when the
\* notification has one, else the update description when it has one, else
\* the document key alone, and the rendered text is the text of the
\* structured rendering.
C22_PayloadPrecedence ==
  \A n \in DeliveredChanges :
    LET change == raws[n]
        event == changeData(change)
        keyAlone == Object(<< <<"documentKey", change.documentKey>> >>)
    IN /\ Truthy(change.fullDocument) =>
            event.json = cleanForYaml(change.fullDocument)
       /\ (~Truthy(change.fullDocument) /\ Truthy(change.updateDescription)) =>
            event.json = cleanForYaml(change.updateDescription)
       /\ (~Truthy(change.fullDocument) /\ ~Truthy(change.updateDescription)) =>
            event.json = cleanForYaml(keyAlone)
       /\ event.yaml = yamlDump(event.json, 0)

\* An update that carries both its document and its description was broadcast
\* with the document, and a delete with the key alone.
C22_Witness ==
  /\ \E n \in DeliveredChanges :
       /\ Truthy(raws[n].fullDocument) /\ Truthy(raws[n].updateDescription)
       /\ changeData(raws[n]).json = cleanForYaml(raws[n].fullDocument)
  /\ \E n \in DeliveredChanges :
       /\ raws[n].operationType = "delete"
       /\ changeData(raws[n]).yaml =
            <<Line(0, "documentKey", ""), Line(1, "_id", "64a0")>>

\* C23: the operation of a change event is INSERT, UPDATE, REPLACE, DELETE,
\* DROP or INVALIDATE for the tag of that name, and the tag in upper case for
\* every other tag.
C23_OperationNames ==
  \A n \in DeliveredChanges :
    LET tag == raws[n].operationType
        operation == changeData(raws[n]).operation
    IN /\ tag = "insert" => operation = "INSERT"
       /\ tag = "update" => operation = "UPDATE"
       /\ tag = "replace" => operation = "REPLACE"
       /\ tag = "delete" => operation = "DELETE"
       /\ tag = "drop" => operation = "DROP"
       /\ tag = "invalidate" => operation = "INVALIDATE"
       /\ tag \notin {"insert", "update", "replace", "delete", "drop", "invalidate"} =>
            operation = toUpperCase(tag)

\* A rename and an invalidate were broadcast as RENAME and INVALIDATE.
C23_Witness ==
  /\ \E n \in DeliveredChanges :
       raws[n].operationType = "rename" /\ changeData(raws[n]).operation = "RENAME"
  /\ \E n \in DeliveredChanges :
       raws[n].operationType = "invalidate"
       /\ changeData(raws[n]).operation = "INVALIDATE"

\* The session is idle: no change stream is open, connectMongoDB is neither
\* connecting nor waiting to retry, and no call of startWatching is under way.
Idle == OpenStreams = {} /\ ~ReconnectPending /\ InFlight = {}

\* C24: while no shutdown has begun the session is never idle.
C24_IdleOnlyAtShutdown == shutdown.pc = "none" => ~Idle

\* The status naming the target watched before this step, as broadcast.
SameStatus == [StatusMsg(currentWatchDescription) EXCEPT !.cast = TRUE]

\* C25: a 'selectCollection' naming the target that is being watched is
\* carried out like any other: the handler calls close on the current stream
\* and suspends, and when the close has settled the stream is closed, a new
\* stream on the same target is opened and becomes current, and every
\* registered open connection is sent the status of that target again.
C25_SameTargetReopened ==
  [][\A c \in Conns :
       /\ (/\ ~LockedTarget
           /\ currentChangeStream # NoStream
           /\ streams[currentChangeStream].state = "open"
           /\ \E database \in Databases : \E collection \in Collections :
                /\ WatchDescription(database, collection) = currentWatchDescription
                /\ SelectCollection(c, database, collection))
            => /\ streams'[currentChangeStream].state # "open"
               /\ pending'[c] # None
               /\ pending'[c][3] = currentChangeStream
       /\ (/\ ViewerResume(c)
           /\ WatchDescription(pending[c][1], pending[c][2]) = currentWatchDescription)
            => /\ streams'[pending[c][3]].state = "closed"
               /\ Len(streams') = Len(streams) + 1
               /\ currentChangeStream' = Len(streams')
               /\ streams'[currentChangeStream'].state = "open"
               /\ Describes(currentWatchDescription, streams'[currentChangeStream'].target)
               /\ currentWatchDescription' = currentWatchDescription
               /\ \A d \in Conns :
                    IF d \in clients /\ readyState[d] = "OPEN"
                      THEN inbox'[d] = Append(inbox[d], SameStatus)
                      ELSE inbox'[d] = inbox[d]]_vars

\* The one request made so far named the whole deployment, which the startup
\* stream was watching: that stream is closed, a second one watches the whole
\* deployment, and a viewer that joined before has the status twice.
C25_Witness ==
  /\ requests = 1
  /\ Len(streams) = 2
  /\ streams[1].state = "closed"
  /\ currentChangeStream = 2
  /\ streams[2] = [target |-> <<"*", "*">>, state |-> "open", pos |-> 0]
  /\ \E c \in Conns :
       /\ Len(inbox[c]) = 3
       /\ inbox[c][2] = StatusMsg("*.*")
       /\ inbox[c][3] = [StatusMsg("*.*") EXCEPT !.cast = TRUE]

\* C26: each 'error' event of a change stream has every registered open
\* connection sent exactly one message, the error, by broadcast, and nobody
\* else anything.
C26_OneBroadcastPerStreamError ==
  [][\A s \in StreamIds : \A left \in {"open", "closed"} :
       StreamError(s, left) =>
         \A d \in Conns :
           IF d \in clients /\ readyState[d] = "OPEN"
             THEN inbox'[d] = Append(inbox[d], [StreamErrorMsg(s) EXCEPT !.cast = TRUE])
             ELSE inbox'[d] = inbox[d]]_vars

\* The active stream has emitted three errors in a row and a viewer that
\* joined before them has been sent three error messages, and nothing else,
\* after its welcome and status.
C26_Witness ==
  /\ currentChangeStream = 1
  /\ \E c \in Conns :
       /\ Len(inbox[c]) = 5
       /\ \A i \in 3..5 : inbox[c][i] = [StreamErrorMsg(1) EXCEPT !.cast = TRUE]

\* C27: after an 'error' event of the active change stream, that stream is
\* closed and currentChangeStream no longer refers to it.
C27_ErroredStreamDropped ==
  [][\A s \in StreamIds : \A left \in {"open", "closed"} :
       (StreamError(s, left) /\ s = currentChangeStream) =>
         /\ streams'[s].state = "closed"
         /\ currentChangeStream' # s]_vars

\* In this step the requester c was sent the error of a fixed target.
Rejected(c) == inbox'[c] = Append(inbox[c], LockedMsg)

C29_ChangesFromCurrentStream ==
  [][\A s \in StreamIds :
       (StreamChange(s) /\ inbox' # inbox) => s = currentChangeStream]_vars

\* C30: whenever currentChangeStream refers to a stream,
\* currentWatchDescription is the description of the target that stream was
\* opened on.
C30_DescriptionOfCurrentStream ==
  currentChangeStream # NoStream =>
    Describes(currentWatchDescription, streams[currentChangeStream].target)

\* Two viewers' requests for different targets have overlapped: the stream of
\* the first is still open, currentChangeStream refers to the stream of the
\* second, and the description is that of the second.
C30_Witness ==
  /\ currentChangeStream = 3
  /\ streams[2].state = "open" /\ streams[3].state = "open"
  /\ streams[2].target # streams[3].target
  /\ Describes(currentWatchDescription, streams[3].target)

\* C31: currentWatchDescription changes only in a step that opens a change
\* stream and makes it the current one.
C31_DescriptionChangesOnOpen ==
  [][currentWatchDescription' # currentWatchDescription =>
       /\ Len(streams') = Len(streams) + 1
       /\ currentChangeStream' = Len(streams')]_vars

\* C32: the startup path leaves a subscription it finds alone: while
\* currentChangeStream refers to a stream, which only a viewer's request can
\* have opened before connectMongoDB has finished, a step of connectMongoDB
\* neither calls close on it nor changes currentChangeStream or
\* currentWatchDescription.
C32_StartupKeepsViewerTarget ==
  [][((ConnectOk \/ StartupResume) /\ currentChangeStream # NoStream) =>
       /\ currentChangeStream' = currentChangeStream
       /\ currentWatchDescription' = currentWatchDescription
       /\ streams'[currentChangeStream] = streams[currentChangeStream]]_vars

\* A step of connectMongoDB up to its next await or its end.
AttemptStep == ConnectOk \/ ConnectFail \/ StartupResume

\* C33: connectMongoDB is one chain of attempts: a retry timer is set only by
\* a step of the attempt in progress that fails, every such step sets it,
\* only the timer starts the next attempt, and once an attempt has succeeded
\* no attempt is in progress or scheduled any more.
C33_OneAttemptAtATime ==
  [][/\ (startup'.pc = "retryWait" /\ startup.pc # "retryWait") =>
          /\ AttemptStep
          /\ startup.pc \in {"connecting", "closing"}
          /\ failures' = failures + 1
     /\ (AttemptStep /\ failures' = failures + 1) => startup'.pc = "retryWait"
     /\ (startup'.pc = "connecting" /\ startup.pc # "connecting") =>
          (RetryTimer /\ startup.pc = "retryWait")
     /\ startup.pc = "done" => startup'.pc = "done"]_vars

\* The first attempt failed, its timer started the second, and the second has
\* succeeded: nothing is in progress or scheduled.
C33_Witness ==
  /\ mongoClient = 2
  /\ failures = 1
  /\ startup.pc = "done"
  /\ currentChangeStream # NoStream

\* C34: at most one store client is connected at any time.
C34_OneConnectedClient == Cardinality(liveClients) <= 1

\* C36: while the current store client is not connected, the listing
\* endpoints answer 503 and nothing else.
C36_UnavailableWhileNotConnected ==
  mongoClient \notin liveClients => ApiStatuses = {503}

\* C35: the registry holds exactly the connections that have connected and
\* have emitted neither 'close' nor 'error': every open connection is
\* registered and no new or closed one is; a connection enters the registry
\* in wss.on('connection') and leaves it in its 'error' or 'close' handler,
\* whichever comes first, the 'close' after an 'error' changing nothing; no
\* other step changes the registry.
C35_RegistryExact ==
  /\ [](\A c \in Conns :
          /\ readyState[c] = "OPEN" => c \in clients
          /\ readyState[c] \in {"NEW", "CLOSED"} => c \notin clients)
  /\ [][\A c \in Conns :
          /\ WsConnection(c) => (c \notin clients /\ clients' = clients \cup {c})
          /\ WsError(c) => clients' = clients \ {c}
          /\ WsClose(c) => clients' = clients \ {c}
          /\ (WsClose(c) /\ c \notin clients) => clients' = clients
          /\ (c \in clients /\ c \notin clients') => (WsClose(c) \/ WsError(c))
          /\ (c \notin clients /\ c \in clients') => WsConnection(c)]_vars

\* The first connection has emitted 'error' and is out of the registry while
\* its 'close' is still to come; the second is registered.
C35_Witness ==
  /\ readyState[1] = "CLOSING"
  /\ 1 \notin clients
  /\ clients = {2}

\* The first n 'change' messages in the order they arrived.
Arrived(n) == [i \in 1..n |-> i]

LastEntries(seq, k) == SubSeq(seq, Len(seq) - k + 1, Len(seq))

====
